---- MODULE Spec2Model ----
(***************************************************************************)
(* Position-history and animation engine of the warsaw-ztm map.           *)
(*                                                                         *)
(* Three variants of the same program are modelled side by side, selected *)
(* by the variable `variant`:                                              *)
(*   "part_000"  single-point seed, stale-timestamp guard, static trail + *)
(*               animating segment + head (src/unnamed/part_000)          *)
(*   "part_002"  two-point seed, stale-timestamp guard                    *)
(*               (src/unnamed/part_002, first file of the part)           *)
(*   "index"     single-point seed, no stale-timestamp guard              *)
(*               (src/public/index.js)                                    *)
(*                                                                         *)
(* Time is Date.now() in milliseconds.  Longitudes and latitudes are      *)
(* integers in units of 0.01 degree; an interpolated position is an exact *)
(* fraction [lonNum, latNum, den] (IEEE rounding is not modelled).        *)
(***************************************************************************)
EXTENDS Integers, Sequences, FiniteSets, TLC

VARIABLES
  variant,        \* which source file is running
  clock,          \* Date.now(), ms
  busHistory,     \* VehicleNumber -> <<[lon, lat, time]>>  (keys: DOMAIN)
  lastTripsData,  \* render snapshot held by init()'s closure
  inflight,       \* updateTrips() calls suspended at `await fetchBusData()`
  started,        \* init() got past `await updateTrips(); animate(); setInterval`
  rafPending,     \* requestAnimationFrame(animate) callbacks not yet run
  frame,          \* what was last handed to overlay.setProps
  lastGlobalStart,\* part_002: Date.now() of the last successful fetchBusData
  console         \* what fetchBusData last wrote: "log" (console.log) or "error"

vars == <<variant, clock, busHistory, lastTripsData, inflight, started,
          rafPending, frame, lastGlobalStart, console>>

----------------------------------------------------------------------------
(* Bounds of the model *)

\* HISTORY_LENGTH is 100 in every variant of the source; the model keeps the
\* code (`if (hist.length > HISTORY_LENGTH) hist.shift()`) and scales the
\* number so that eviction happens within the explored runs.
HISTORY_LENGTH == 3

EpochSec == 10       \* the second in which the page is opened
MaxTicks == 2        \* clock steps explored
MaxTs == 2           \* feed timestamps reach EpochSec + MaxTs
MaxBatch == 2        \* most entities in one decoded FeedMessage
MaxInflight == 2     \* most overlapping fetches
MaxRaf == 2          \* most pending animation-frame callbacks
MaxDrift == 2        \* seconds Date.now() may advance inside one animate()
ScenarioGapSec == 10 \* seconds between the two reports of the B1 scenario
ScenarioSlackSec == 2\* seconds the B1 scenario is followed past its second report

(* Program constants *)
MsPerSec == 1000
SeedBackMs == 5000

TickMs == MsPerSec \div 2
StartClock == EpochSec * MsPerSec + TickMs
MaxClock == StartClock + MaxTicks * TickMs

----------------------------------------------------------------------------
(* Small helpers *)

Max(a, b) == IF a >= b THEN a ELSE b
Min(a, b) == IF a <= b THEN a ELSE b
Floor(a, b) == a \div b
Last(s) == s[Len(s)]
MapSeq(F(_), s) == [i \in 1..Len(s) |-> F(s[i])]
Range(s) == {s[i] : i \in 1..Len(s)}

RECURSIVE FlatMap(_, _, _)
FlatMap(F(_), s, i) ==
  IF i > Len(s) THEN <<>> ELSE F(s[i]) \o FlatMap(F, s, i + 1)

----------------------------------------------------------------------------
(* The decoded feed *)

PA == [lon |-> 2100, lat |-> 5220]
PB == [lon |-> 2101, lat |-> 5221]
Points == {PA, PB}

\* One FeedMessage entity that has e.vehicle.  position = FALSE: no
\* e.vehicle.position.  id = "": no e.vehicle.vehicle.id.  timestamp = 0:
\* no e.vehicle.timestamp (0 is falsy in `e.vehicle.timestamp ? ... : now`).
Entity(id, hasPos, p, ts) ==
  [id |-> id, position |-> hasPos, lon |-> p.lon, lat |-> p.lat, timestamp |-> ts]


----------------------------------------------------------------------------
(* fetchBusData: normalisation of the entities (part_000 lines 44-56)      *)

FilteredVehicle == "V/10/9"

\* .filter(e => e.vehicle && e.vehicle.position)
HasPosition(e) == e.position

\* .map(e => ({VehicleNumber, Lon, Lat, Timestamp}))  (Lines and Brigade are
\* tooltip metadata and take no part in the history or the animation)
ToBus(e, now) ==
  [VehicleNumber |-> e.id,
   Lon |-> e.lon,
   Lat |-> e.lat,
   Timestamp |-> IF e.timestamp # 0 THEN e.timestamp * MsPerSec ELSE now]

\* part_000 and index.js drop the vehicle 'V/10/9'
NotFiltered(bus) == bus.VehicleNumber # FilteredVehicle

Normalise000(entities, now) ==
  SelectSeq(MapSeq(LAMBDA e : ToBus(e, now), SelectSeq(entities, HasPosition)),
            NotFiltered)

\* part_002 has no 'V/10/9' filter
Normalise002(entities, now) ==
  MapSeq(LAMBDA e : ToBus(e, now), SelectSeq(entities, HasPosition))

----------------------------------------------------------------------------
(* fetchBusData: history update, one report (the body of buses.forEach)    *)

Obs(lon, lat, time) == [lon |-> lon, lat |-> lat, time |-> time]

\* variation: the store replaced by one holding this vehicle only,
\* `busHistory = {[id]: hist}`
PutAlone(store, id, hist) == [k \in {id} |-> hist]

Put(store, id, hist) ==
  [k \in DOMAIN store \cup {id} |-> IF k = id THEN hist ELSE store[k]]

\* variation: the push without the shift
PushNoShift(hist, o) == Append(hist, o)

\* variation: the newest entry is dropped instead, `hist.pop()`
PushPop(hist, o) ==
  LET pushed == Append(hist, o)
  IN IF Len(pushed) > HISTORY_LENGTH THEN SubSeq(pushed, 1, Len(pushed) - 1) ELSE pushed

\* hist.push(o); if (hist.length > HISTORY_LENGTH) hist.shift();
PushShift(hist, o) ==
  LET pushed == Append(hist, o)
  IN IF Len(pushed) > HISTORY_LENGTH THEN Tail(pushed) ELSE pushed

\* variation: only the position is compared
DiffersInPosition(last, bus) == last.lon # bus.Lon \/ last.lat # bus.Lat

\* last.lon !== bus.Lon || last.lat !== bus.Lat || last.time !== bus.Timestamp
Differs(last, bus) ==
  last.lon # bus.Lon \/ last.lat # bus.Lat \/ last.time # bus.Timestamp

\* variation: the guard written `bus.Timestamp < last.time`
AppendReportStrictGuard(store, bus, guard) ==
  LET hist == store[bus.VehicleNumber]
      hasLast == Len(hist) > 0
  IN IF guard /\ hasLast /\ bus.Timestamp < Last(hist).time
     THEN store
     ELSE IF ~hasLast \/ Differs(Last(hist), bus)
          THEN Put(store, bus.VehicleNumber,
                   PushShift(hist, Obs(bus.Lon, bus.Lat, bus.Timestamp)))
          ELSE store

\* variation: no stale-timestamp guard in any variant
AppendReportNoGuard(store, bus, guard) ==
  LET hist == store[bus.VehicleNumber]
      hasLast == Len(hist) > 0
  IN IF ~hasLast \/ Differs(Last(hist), bus)
     THEN Put(store, bus.VehicleNumber,
              PushShift(hist, Obs(bus.Lon, bus.Lat, bus.Timestamp)))
     ELSE store

\* variation: an accepted report overwrites the last entry, `hist[hist.length-1] = {...}`
AppendReportOverwrite(store, bus, guard) ==
  LET hist == store[bus.VehicleNumber]
      hasLast == Len(hist) > 0
  IN IF guard /\ hasLast /\ bus.Timestamp <= Last(hist).time
     THEN store
     ELSE IF ~hasLast \/ Differs(Last(hist), bus)
          THEN Put(store, bus.VehicleNumber,
                   [hist EXCEPT ![Len(hist)] = Obs(bus.Lon, bus.Lat, bus.Timestamp)])
          ELSE store

\* the tail shared by the three variants once the vehicle is known:
\* `guard` says whether the variant has `if (last && bus.Timestamp <= last.time) return;`
AppendReport(store, bus, guard) ==
  LET hist == store[bus.VehicleNumber]
      hasLast == Len(hist) > 0
  IN IF guard /\ hasLast /\ bus.Timestamp <= Last(hist).time
     THEN store
     ELSE IF ~hasLast \/ Differs(Last(hist), bus)
          THEN Put(store, bus.VehicleNumber,
                   PushShift(hist, Obs(bus.Lon, bus.Lat, bus.Timestamp)))
          ELSE store

\* variation: the forEach body without `if (!bus.VehicleNumber) return;`
UpdateHistory000NoSkip(store, bus, now) ==
  IF bus.VehicleNumber \notin DOMAIN store
  THEN Put(store, bus.VehicleNumber, <<Obs(bus.Lon, bus.Lat, now)>>)
  ELSE AppendReport(store, bus, TRUE)

\* variation: a seed stamped with the report's own feed timestamp
UpdateHistory000SeedFeedTime(store, bus, now) ==
  IF bus.VehicleNumber = "" THEN store
  ELSE IF bus.VehicleNumber \notin DOMAIN store
       THEN Put(store, bus.VehicleNumber, <<Obs(bus.Lon, bus.Lat, bus.Timestamp)>>)
       ELSE AppendReport(store, bus, TRUE)

\* part_000 lines 59-78
UpdateHistory000(store, bus, now) ==
  IF bus.VehicleNumber = "" THEN store
  ELSE IF bus.VehicleNumber \notin DOMAIN store
       THEN Put(store, bus.VehicleNumber, <<Obs(bus.Lon, bus.Lat, now)>>)
       ELSE AppendReport(store, bus, TRUE)

\* variation: a seed whose earlier point has longitude and latitude swapped
UpdateHistory002SeedSwapped(store, bus, now) ==
  IF bus.VehicleNumber = "" THEN store
  ELSE IF bus.VehicleNumber \notin DOMAIN store
       THEN Put(store, bus.VehicleNumber,
                <<Obs(bus.Lat, bus.Lon, now - SeedBackMs), Obs(bus.Lon, bus.Lat, now)>>)
       ELSE AppendReport(store, bus, TRUE)

\* part_002 lines 55-79
UpdateHistory002(store, bus, now) ==
  IF bus.VehicleNumber = "" THEN store
  ELSE IF bus.VehicleNumber \notin DOMAIN store
       THEN Put(store, bus.VehicleNumber,
                <<Obs(bus.Lon, bus.Lat, now - SeedBackMs), Obs(bus.Lon, bus.Lat, now)>>)
       ELSE AppendReport(store, bus, TRUE)

\* index.js lines 119-133
UpdateHistoryIndex(store, bus, now) ==
  IF bus.VehicleNumber = "" THEN store
  ELSE IF bus.VehicleNumber \notin DOMAIN store
       THEN Put(store, bus.VehicleNumber, <<Obs(bus.Lon, bus.Lat, now)>>)
       ELSE AppendReport(store, bus, FALSE)

UpdateHistory(v, store, bus, now) ==
  CASE v = "part_000" -> UpdateHistory000(store, bus, now)
    [] v = "part_002" -> UpdateHistory002(store, bus, now)
    [] v = "index" -> UpdateHistoryIndex(store, bus, now)

\* buses.forEach(bus => {...}) from report i on
RECURSIVE ForEachUpdate(_, _, _, _, _)
ForEachUpdate(v, store, buses, i, now) ==
  IF i > Len(buses) THEN store
  ELSE ForEachUpdate(v, UpdateHistory(v, store, buses[i], now), buses, i + 1, now)

----------------------------------------------------------------------------
(* fetchBusData: segment construction, part_000 lines 80-102               *)

HistOf(store, id) == IF id \in DOMAIN store THEN store[id] ELSE <<>>

\* variation: the end of the segment rounded up, Math.ceil(curr.time / 1000)
Segment000CeilEnd(hist, i, bus) ==
  LET prev == hist[i - 1]
      curr == hist[i]
      t0 == Floor(prev.time, MsPerSec)
      t1 == Floor(curr.time + MsPerSec - 1, MsPerSec)
  IN [path |-> <<[lon |-> prev.lon, lat |-> prev.lat], [lon |-> curr.lon, lat |-> curr.lat]>>,
      timestamps |-> <<0, t1 - t0>>,
      vehicle |-> bus.VehicleNumber,
      segmentStartTime |-> t0]

\* the segment of the pair (hist[i-1], hist[i])
Segment000(hist, i, bus) ==
  LET prev == hist[i - 1]
      curr == hist[i]
      t0 == Floor(prev.time, MsPerSec)
      t1 == Floor(curr.time, MsPerSec)
  IN [path |-> <<[lon |-> prev.lon, lat |-> prev.lat], [lon |-> curr.lon, lat |-> curr.lat]>>,
      timestamps |-> <<0, t1 - t0>>,
      vehicle |-> bus.VehicleNumber,
      segmentStartTime |-> t0]

\* the inner `for (let i = 1; i < hist.length; i++)` of one bus
BusSegments000(store, bus) ==
  LET hist == HistOf(store, bus.VehicleNumber)
  IN IF Len(hist) < 2 THEN <<>>
     ELSE [i \in 1..(Len(hist) - 1) |-> Segment000(hist, i + 1, bus)]

\* trips: one run of segments per report of the batch, in batch order
BuildTrips000(store, buses) ==
  FlatMap(LAMBDA bus : BusSegments000(store, bus), buses, 1)

\* variation: a catch block that also resets the history store
fetchBusDataCatchReset(store) == [history |-> [k \in {} |-> <<>>], trips |-> <<>>]

\* the catch block, lines 103-106: `return []`
fetchBusDataCatch(store) == [history |-> store, trips |-> <<>>]

\* variation: the segments of each report are built inside the history
\* loop, right after the update for that report
RECURSIVE ForEachInterleaved(_, _, _, _, _)
ForEachInterleaved(store, trips, buses, i, now) ==
  IF i > Len(buses) THEN [history |-> store, trips |-> trips]
  ELSE LET next == UpdateHistory000(store, buses[i], now)
       IN ForEachInterleaved(next, trips \o BusSegments000(next, buses[i]), buses, i + 1, now)

fetchBusData000Interleaved(store, entities, now) ==
  ForEachInterleaved(store, <<>>, Normalise000(entities, now), 1, now)

\* the try block after the awaits
fetchBusData000(store, entities, now) ==
  LET buses == Normalise000(entities, now)
      hist == ForEachUpdate("part_000", store, buses, 1, now)
  IN [history |-> hist, trips |-> BuildTrips000(hist, buses)]


----------------------------------------------------------------------------
(* animate, part_000 lines 198-302                                         *)

SegEnd(seg) == seg.segmentStartTime + seg.timestamps[2]

\* variation: `if (nowSec > segEnd)`
IsFinishedStrict(seg, nowSec) == seg.vehicle # "" /\ nowSec > SegEnd(seg)

\* lines 205-218: `if (nowSec >= segEnd)`
IsFinished(seg, nowSec) == seg.vehicle # "" /\ nowSec >= SegEnd(seg)

\* variation: the animating branch without `nowSec >= seg.segmentStartTime`
IsAnimatingEarly(seg, nowSec) ==
  /\ seg.vehicle # ""
  /\ nowSec < SegEnd(seg)

\* `else if (nowSec >= seg.segmentStartTime && nowSec < segEnd)`
IsAnimating(seg, nowSec) ==
  /\ seg.vehicle # ""
  /\ ~(nowSec >= SegEnd(seg))
  /\ nowSec >= seg.segmentStartTime
  /\ nowSec < SegEnd(seg)

\* variation: Math.max(0, x / d), without the Math.min(1, ...)
ClampLow(x, d) ==
  LET n == IF d < 0 THEN 0 - x ELSE x
      m == IF d < 0 THEN 0 - d ELSE d
  IN [num |-> Max(0, n), den |-> m]

\* A fraction num/den with den > 0, as Math.max(0, Math.min(1, x / d)) leaves it.
\* (x / d with d < 0 is turned into (-x) / (-d) first.)
Clamp01(x, d) ==
  LET n == IF d < 0 THEN 0 - x ELSE x
      m == IF d < 0 THEN 0 - d ELSE d
  IN [num |-> Max(0, Min(m, n)), den |-> m]

\* line 258: (now - seg.segmentStartTime) / (seg.timestamps[1] || 1), clamped
HeadFraction(seg, now) ==
  LET d == IF seg.timestamps[2] = 0 THEN 1 ELSE seg.timestamps[2]
  IN Clamp01(now - seg.segmentStartTime, d)

\* lines 259-261: start + (end - start) * t, as a fraction over t.den
HeadPos(seg, now) ==
  LET t == HeadFraction(seg, now)
      start == seg.path[1]
      end == seg.path[2]
  IN [lonNum |-> start.lon * t.den + (end.lon - start.lon) * t.num,
      latNum |-> start.lat * t.den + (end.lat - start.lat) * t.num,
      den |-> t.den]

\* line 268: pos: seg.path[1], the end point of a finished segment
EndPos(seg) == [lonNum |-> seg.path[2].lon, latNum |-> seg.path[2].lat, den |-> 1]

\* lines 244-247: Math.max(0, Math.min(d.timestamps[1], now - d.segmentStartTime))
TripCurrentTime(seg, now) == Max(0, Min(seg.timestamps[2], now - seg.segmentStartTime))

\* variation: the head of a finished segment put at its first point, seg.path[0]
BusHeadsAtStart(finishedSegments, animatingSegments, now) ==
  LET ids == {animatingSegments[i].vehicle : i \in 1..Len(animatingSegments)}
             \cup {finishedSegments[i].vehicle : i \in 1..Len(finishedSegments)}
      OfVehicle(segs, v) == SelectSeq(segs, LAMBDA seg : seg.vehicle = v)
      StartPos(seg) == [lonNum |-> seg.path[1].lon, latNum |-> seg.path[1].lat, den |-> 1]
  IN [v \in ids |->
        IF OfVehicle(animatingSegments, v) # <<>>
        THEN HeadPos(Last(OfVehicle(animatingSegments, v)), now)
        ELSE StartPos(Head(OfVehicle(finishedSegments, v)))]

\* lines 252-270: the animating loop assigns busHeads[vehicleId] for every
\* animating segment (the last one wins); the finished loop assigns only when
\* the vehicle has no head yet (the first one wins).
BusHeads(finishedSegments, animatingSegments, now) ==
  LET ids == {animatingSegments[i].vehicle : i \in 1..Len(animatingSegments)}
             \cup {finishedSegments[i].vehicle : i \in 1..Len(finishedSegments)}
      OfVehicle(segs, v) == SelectSeq(segs, LAMBDA seg : seg.vehicle = v)
  IN [v \in ids |->
        IF OfVehicle(animatingSegments, v) # <<>>
        THEN HeadPos(Last(OfVehicle(animatingSegments, v)), now)
        ELSE EndPos(Head(OfVehicle(finishedSegments, v)))]

\* One call of animate(): nowSec is the Date.now() read of line 200, now the
\* later reads of lines 245 and 257.
animate000(trips, nowSec, now) ==
  LET finishedSegments == SelectSeq(trips, LAMBDA seg : IsFinished(seg, nowSec))
      animatingSegments == SelectSeq(trips, LAMBDA seg : IsAnimating(seg, nowSec))
  IN [nowSec |-> nowSec,
      now |-> now,
      finishedSegments |-> finishedSegments,
      animatingSegments |-> animatingSegments,
      currentTime |-> MapSeq(LAMBDA seg : TripCurrentTime(seg, now), animatingSegments),
      busHeads |-> BusHeads(finishedSegments, animatingSegments, now)]

NoFrame ==
  [nowSec |-> 0, now |-> 0, finishedSegments |-> <<>>, animatingSegments |-> <<>>,
   currentTime |-> <<>>, busHeads |-> <<>>]


----------------------------------------------------------------------------
(* fetchBusData of part_002: segment construction, lines 81-126            *)

INTERP_POINTS == 10
MIN_SEGMENT_DURATION == 19
FETCH_INTERVAL == 20000

\* A path point j/(INTERP_POINTS - 1) of the way from prev to curr, and a
\* timestamp (j / (INTERP_POINTS - 1)) * MIN_SEGMENT_DURATION: both are kept
\* as numerators over INTERP_POINTS - 1.
PathPoint002(prev, curr, j) ==
  [lonNum |-> prev.lon * (INTERP_POINTS - 1) + (curr.lon - prev.lon) * j,
   latNum |-> prev.lat * (INTERP_POINTS - 1) + (curr.lat - prev.lat) * j,
   den |-> INTERP_POINTS - 1]

\* The segment of the pair (hist[i-1], hist[i]).  The record keeps what path
\* and timestamps are computed from (the two end points and isLast); PathAt002
\* and TimestampAt002 are the entries of the arrays of lines 97-110.  color is not modelled.
Segment002(hist, i, bus) ==
  LET prev == hist[i - 1]
      curr == hist[i]
  IN [prev |-> [lon |-> prev.lon, lat |-> prev.lat],
      curr |-> [lon |-> curr.lon, lat |-> curr.lat],
      isLast |-> (i = Len(hist)),
      vehicle |-> bus.VehicleNumber]

\* path[j - 1] and timestamps[j - 1] of a segment, j in 1..INTERP_POINTS
PathAt002(seg, j) == PathPoint002(seg.prev, seg.curr, j - 1)

\* variation: every segment gets the animated timestamps, not the last only
TimestampAt002AllAnimated(seg, j) == (j - 1) * MIN_SEGMENT_DURATION

TimestampAt002(seg, j) == IF seg.isLast THEN (j - 1) * MIN_SEGMENT_DURATION ELSE 0

\* `startIndex = Math.max(1, hist.length - 3)`: the last three pairs at most
BusSegments002(store, bus) ==
  LET hist == HistOf(store, bus.VehicleNumber)
      first == Max(2, Len(hist) - 2)
  IN IF Len(hist) < 2 THEN <<>>
     ELSE [k \in 1..(Len(hist) - first + 1) |-> Segment002(hist, first + k - 1, bus)]

BuildTrips002(store, buses) ==
  FlatMap(LAMBDA bus : BusSegments002(store, bus), buses, 1)

\* the try block after the awaits: {trips, globalStart}
fetchBusData002(store, entities, now) ==
  LET buses == Normalise002(entities, now)
      hist == ForEachUpdate("part_002", store, buses, 1, now)
  IN [history |-> hist, trips |-> BuildTrips002(hist, buses), globalStart |-> now]

----------------------------------------------------------------------------
(* animate of part_002, lines 179-274                                      *)

NullPos == [lonNum |-> 0, latNum |-> 0, den |-> 0]

\* segments.sort((a, b) => a.timestamps[0] - b.timestamps[0]): stable insertion
RECURSIVE InsertByStart(_, _)
InsertByStart(sorted, seg) ==
  IF sorted = <<>> THEN <<seg>>
  ELSE IF TimestampAt002(Last(sorted), 1) <= TimestampAt002(seg, 1)
       THEN Append(sorted, seg)
       ELSE Append(InsertByStart(SubSeq(sorted, 1, Len(sorted) - 1), seg), Last(sorted))

RECURSIVE SortByStart(_, _)
SortByStart(segs, n) ==
  IF n = 0 THEN <<>> ELSE InsertByStart(SortByStart(segs, n - 1), segs[n])

\* nowSec = elapsedMs / 1000 against a timestamp t / (INTERP_POINTS - 1)
NowBefore(elapsedMs, t) == elapsedMs * (INTERP_POINTS - 1) < t * MsPerSec

\* lines 246-261: the head on the segment being animated
AnimatedHead002(trip, elapsedMs) ==
  LET later == {j \in 1..INTERP_POINTS : NowBefore(elapsedMs, TimestampAt002(trip, j))}
      idx == IF later = {} THEN 0
             ELSE CHOOSE j \in later : \A k \in later : j <= k
  IN IF idx = 0 \/ idx = 1
     THEN PathAt002(trip, INTERP_POINTS)
     ELSE LET t0 == TimestampAt002(trip, idx - 1)
              t1 == TimestampAt002(trip, idx)
              p0 == PathAt002(trip, idx - 1)
              p1 == PathAt002(trip, idx)
              fnum == elapsedMs * (INTERP_POINTS - 1) - t0 * MsPerSec
              fden == (t1 - t0) * MsPerSec
          IN [lonNum |-> p0.lonNum * fden + (p1.lonNum - p0.lonNum) * fnum,
              latNum |-> p0.latNum * fden + (p1.latNum - p0.latNum) * fnum,
              den |-> p0.den * fden]

\* lines 235-263: the loop over one vehicle's sorted segments
RECURSIVE HeadLoop002(_, _, _, _)
HeadLoop002(segments, i, elapsedMs, headPos) ==
  IF i > Len(segments) THEN headPos
  ELSE LET trip == segments[i]
           start == TimestampAt002(trip, 1)
           end == TimestampAt002(trip, INTERP_POINTS)
       IN IF NowBefore(elapsedMs, start)
          THEN HeadLoop002(segments, i + 1, elapsedMs, headPos)
          ELSE IF ~NowBefore(elapsedMs, end)
               THEN HeadLoop002(segments, i + 1, elapsedMs, PathAt002(trip, INTERP_POINTS))
               ELSE AnimatedHead002(trip, elapsedMs)

HeadOf002(trips, v, elapsedMs) ==
  LET segments == SelectSeq(trips, LAMBDA seg : seg.vehicle = v)
  IN HeadLoop002(SortByStart(segments, Len(segments)), 1, elapsedMs, NullPos)

\* lines 224-267: `if (headPos && vehicle) busHeads[vehicle.VehicleNumber] = ...`
BusHeads002(trips, elapsedMs) ==
  LET ids == {trips[i].vehicle : i \in 1..Len(trips)} \ {""}
      heads == [v \in ids |-> HeadOf002(trips, v, elapsedMs)]
  IN [v \in {w \in ids : heads[w] # NullPos} |-> heads[v]]

\* one call of animate(): the TripsLayer is given lastTripsData itself and
\* currentTime = nowSec; lastGlobalStart = 0 stands for null as well
\* (Date.now() - null is Date.now())
animate002(trips, globalStart, now) ==
  [elapsedMs |-> now - globalStart,
   busHeads |-> BusHeads002(trips, now - globalStart)]

----------------------------------------------------------------------------
(* fetchBusData of index.js: trips, lines 135-153                          *)

TripIndex(store, bus) ==
  LET hist == HistOf(store, bus.VehicleNumber)
      t0 == Floor(hist[1].time, MsPerSec)
  IN [path |-> IF Len(hist) > 0
               THEN MapSeq(LAMBDA e : [lon |-> e.lon, lat |-> e.lat], hist)
               ELSE <<[lon |-> bus.Lon, lat |-> bus.Lat]>>,
      timestamps |-> IF Len(hist) > 0
                     THEN MapSeq(LAMBDA e : Floor(e.time, MsPerSec) - t0, hist)
                     ELSE <<0>>,
      vehicle |-> bus.VehicleNumber]

fetchBusDataIndex(store, entities, now) ==
  LET buses == Normalise000(entities, now)
      hist == ForEachUpdate("index", store, buses, 1, now)
  IN [history |-> hist, trips |-> MapSeq(LAMBDA bus : TripIndex(hist, bus), buses)]

\* updateTrips of index.js, lines 218-267: both layers are rebuilt on the trips;
\* the scatter layer shows d.path[d.path.length - 1].  (The TripsLayer phase
\* currentTime / maxTrail only drives the fade and is not modelled.)
LayersIndex(tripsData) ==
  [trips |-> tripsData, busPoints |-> MapSeq(LAMBDA d : Last(d.path), tripsData)]


----------------------------------------------------------------------------
(* fetchBusData and animate of part_004: segments relative to globalStart  *)

\* lines 83-91: the earliest prev.time over the pairs of the batch's
\* vehicles, or Date.now() when there is no pair
GlobalStart004(store, buses, now) ==
  LET times == UNION {{HistOf(store, buses[k].VehicleNumber)[i].time :
                         i \in 1..(Len(HistOf(store, buses[k].VehicleNumber)) - 1)} :
                      k \in 1..Len(buses)}
  IN IF times = {} THEN now
     ELSE CHOOSE t \in times : \A u \in times : t <= u

\* lines 95-108: the segment of the pair (hist[i-1], hist[i])
Segment004(hist, i, bus, globalStart) ==
  LET prev == hist[i - 1]
      curr == hist[i]
  IN [path |-> <<[lon |-> prev.lon, lat |-> prev.lat], [lon |-> curr.lon, lat |-> curr.lat]>>,
      timestamps |-> <<Floor(prev.time - globalStart, MsPerSec),
                       Floor(curr.time - globalStart, MsPerSec)>>,
      vehicle |-> bus.VehicleNumber]

BusSegments004(store, bus, globalStart) ==
  LET hist == HistOf(store, bus.VehicleNumber)
  IN IF Len(hist) < 2 THEN <<>>
     ELSE [i \in 1..(Len(hist) - 1) |-> Segment004(hist, i + 1, bus, globalStart)]

\* the try block after the awaits: {trips, globalStart}; the history update
\* is the one of part_000
fetchBusData004(store, entities, now) ==
  LET buses == Normalise000(entities, now)
      hist == ForEachUpdate("part_000", store, buses, 1, now)
      globalStart == GlobalStart004(hist, buses, now)
  IN [history |-> hist,
      trips |-> FlatMap(LAMBDA bus : BusSegments004(hist, bus, globalStart), buses, 1),
      globalStart |-> globalStart]

\* updateTrips line 163 destructures {trips, globalStart} from the `[]` of
\* the catch block: both names are undefined, and so are lastTripsData and
\* lastGlobalStart after lines 164-165.  UndefinedStart marks that state
\* (lastTripsData then holds <<>> as a placeholder and is not read).
UndefinedStart == 0 - 1

\* segments.sort((a, b) => a.timestamps[0] - b.timestamps[0]): stable insertion
RECURSIVE InsertByStart004(_, _)
InsertByStart004(sorted, seg) ==
  IF sorted = <<>> THEN <<seg>>
  ELSE IF Last(sorted).timestamps[1] <= seg.timestamps[1]
       THEN Append(sorted, seg)
       ELSE Append(InsertByStart004(SubSeq(sorted, 1, Len(sorted) - 1), seg), Last(sorted))

RECURSIVE SortByStart004(_, _)
SortByStart004(segs, n) ==
  IF n = 0 THEN <<>> ELSE InsertByStart004(SortByStart004(segs, n - 1), segs[n])

\* lines 189-204: the loop over one vehicle's sorted segments
RECURSIVE AnimatedLoop004(_, _, _, _)
AnimatedLoop004(segments, i, nowSec, foundCurrent) ==
  IF i > Len(segments) THEN <<>>
  ELSE LET trip == segments[i]
           start == trip.timestamps[1]
           end == trip.timestamps[2]
       IN IF nowSec < start
          THEN AnimatedLoop004(segments, i + 1, nowSec, foundCurrent)
          ELSE IF nowSec >= end
               THEN <<[trip |-> trip, currentTime |-> end - start]>>
                      \o AnimatedLoop004(segments, i + 1, nowSec, foundCurrent)
               ELSE IF ~foundCurrent
                    THEN <<[trip |-> trip, currentTime |-> nowSec - start]>>
                           \o AnimatedLoop004(segments, i + 1, nowSec, TRUE)
                    ELSE AnimatedLoop004(segments, i + 1, nowSec, foundCurrent)

\* lines 221-228: the end point of the vehicle's segment with the greatest
\* timestamps[1] (the first of them in snapshot order)
BusHead004(trips, v) ==
  LET segs == SelectSeq(trips, LAMBDA seg : seg.vehicle = v)
      best == CHOOSE i \in 1..Len(segs) :
                /\ \A j \in 1..Len(segs) : segs[j].timestamps[2] <= segs[i].timestamps[2]
                /\ \A j \in 1..(i - 1) : segs[j].timestamps[2] < segs[i].timestamps[2]
  IN segs[best].path[2]

\* one call of animate() that reaches overlay.setProps (lastTripsData is an
\* array); animatedTrips is kept per vehicle
animate004(trips, globalStart, now) ==
  LET nowSec == IF globalStart = 0 THEN 0 ELSE Floor(now - globalStart, MsPerSec)
      ids == {trips[i].vehicle : i \in 1..Len(trips)} \ {""}
      OfVehicle(v) == SelectSeq(trips, LAMBDA seg : seg.vehicle = v)
  IN [nowSec |-> nowSec,
      animatedTrips |->
        [v \in ids |->
           AnimatedLoop004(SortByStart004(OfVehicle(v), Len(OfVehicle(v))), 1, nowSec, FALSE)],
      busHeads |-> [v \in ids |-> BusHead004(trips, v)]]

----------------------------------------------------------------------------
(* The environment: what a decoded FeedMessage may hold                    *)

EmptyStore == [k \in {} |-> <<>>]

BatchesOf(E) == UNION {[1..n -> E] : n \in 0..MaxBatch}

\* a report of vehicle id at p, stamped k seconds after EpochSec
Report(id, p, k) == Entity(id, TRUE, p, EpochSec + k)
\* the same without e.vehicle.timestamp
Unstamped(id, p) == Entity(id, TRUE, p, 0)
\* a stamped report without e.vehicle.vehicle.id
Anonymous(p, k) == Entity("", TRUE, p, EpochSec + k)

NowSec == Floor(clock, MsPerSec)
Reads == NowSec..(NowSec + MaxDrift)

----------------------------------------------------------------------------
(* Steps shared by the variants                                            *)

\* wall-clock time passes (up to `limit`)
Advance(limit) ==
  /\ clock + TickMs <= limit
  /\ clock' = clock + TickMs
  /\ UNCHANGED <<variant, busHistory, lastTripsData, inflight, started, rafPending,
                 frame, lastGlobalStart, console>>

Tick == Advance(MaxClock)

\* the setInterval callback starts an updateTrips(), which suspends at
\* `await fetchBusData()` (nothing looks whether another one is in flight)
TimerFire ==
  /\ started
  /\ inflight < MaxInflight
  /\ inflight' = inflight + 1
  /\ UNCHANGED <<variant, clock, busHistory, lastTripsData, started, rafPending,
                 frame, lastGlobalStart, console>>

InitOf(v, t) ==
  /\ variant = v
  /\ clock = t
  /\ busHistory = EmptyStore
  /\ lastTripsData = <<>>
  /\ inflight = 1
  /\ started = FALSE
  /\ rafPending = 0
  /\ frame = NoFrame
  /\ lastGlobalStart = 0
  /\ console = "none"

----------------------------------------------------------------------------
(* State machine of part_000                                               *)

\* init() lines 304-308 once the first updateTrips() has returned:
\* animate() runs in the same turn and the interval timer is armed.
FirstFrame000(trips, now) ==
  /\ started' = TRUE
  /\ frame' = animate000(trips, NowSec, now)
  /\ rafPending' = rafPending + 1

\* updateTrips() lines 153-191 resumed with what fetchBusData returned
\* (prevHeadPositions, nextHeadPositions, lastFetchTime and nextFetchTime are
\* written there and read nowhere).
updateTrips000(tripsData) ==
  /\ lastTripsData' = tripsData
  /\ inflight' = inflight - 1
  /\ IF started
     THEN UNCHANGED <<started, frame, rafPending>>
     ELSE \E now \in Reads : FirstFrame000(tripsData, now)

\* a fetch resolves and decodes to `entities`: fetchBusData lines 38-102
FetchOk000(entities) ==
  /\ variant = "part_000"
  /\ inflight > 0
  /\ LET r == fetchBusData000(busHistory, entities, clock)
     IN /\ busHistory' = r.history
        /\ updateTrips000(r.trips)
  /\ console' = "log"
  /\ UNCHANGED <<variant, clock, lastGlobalStart>>

\* the fetch, the schema load or the decode throws: the catch block runs
FetchThrow000 ==
  /\ variant = "part_000"
  /\ inflight > 0
  /\ LET r == fetchBusDataCatch(busHistory)
     IN /\ busHistory' = r.history
        /\ updateTrips000(r.trips)
  /\ console' = "error"
  /\ UNCHANGED <<variant, clock, lastGlobalStart>>

\* a requestAnimationFrame callback runs animate(), which schedules the next
Frame000 ==
  /\ variant = "part_000"
  /\ rafPending > 0
  /\ \E now \in Reads : frame' = animate000(lastTripsData, NowSec, now)
  /\ UNCHANGED <<variant, clock, busHistory, lastTripsData, inflight, started,
                 rafPending, lastGlobalStart, console>>

\* map 'zoom' handler, lines 136-140: animate() is called directly
Zoom000 ==
  /\ variant = "part_000"
  /\ rafPending < MaxRaf
  /\ \E now \in Reads : frame' = animate000(lastTripsData, NowSec, now)
  /\ rafPending' = rafPending + 1
  /\ UNCHANGED <<variant, clock, busHistory, lastTripsData, inflight, started,
                 lastGlobalStart, console>>

----------------------------------------------------------------------------
(* State machine of part_002 (fetch cycles)                                *)

\* lines 276-281: `await updateTrips(); animate();` in init() and in the
\* interval callback alike: every cycle ends with a direct call of animate(),
\* which requests one more frame.  rafPending = MaxRaf stands for MaxRaf or more.
AfterUpdate002(trips, globalStart) ==
  /\ frame' = animate002(trips, globalStart, clock)
  /\ rafPending' = Min(rafPending + 1, MaxRaf)
  /\ started' = TRUE
  /\ inflight' = inflight - 1

FetchOk002(entities) ==
  /\ variant = "part_002"
  /\ inflight > 0
  /\ LET r == fetchBusData002(busHistory, entities, clock)
     IN /\ busHistory' = r.history
        /\ lastTripsData' = r.trips
        /\ lastGlobalStart' = r.globalStart
        /\ AfterUpdate002(r.trips, r.globalStart)
  /\ console' = "log"
  /\ UNCHANGED <<variant, clock>>

\* fetchBusData returns [] (lines 127-130); updateTrips returns at
\* `if (!result || !result.trips)` and keeps the snapshot
FetchThrow002 ==
  /\ variant = "part_002"
  /\ inflight > 0
  /\ busHistory' = fetchBusDataCatch(busHistory).history
  /\ AfterUpdate002(lastTripsData, lastGlobalStart)
  /\ console' = "error"
  /\ UNCHANGED <<variant, clock, lastTripsData, lastGlobalStart>>

\* a requestAnimationFrame callback runs animate(), which requests the next
Frame002 ==
  /\ variant = "part_002"
  /\ rafPending > 0
  /\ frame' = animate002(lastTripsData, lastGlobalStart, clock)
  /\ UNCHANGED <<variant, clock, busHistory, lastTripsData, inflight, started,
                 rafPending, lastGlobalStart, console>>

----------------------------------------------------------------------------
(* State machine of index.js (fetch cycles)                                *)

\* init() lines 345-347: after the first updateTrips(), animateTrails() starts
updateTripsIndex(tripsData) ==
  /\ frame' = LayersIndex(tripsData)
  /\ inflight' = inflight - 1
  /\ started' = TRUE
  /\ rafPending' = 1

FetchOkIndex(entities) ==
  /\ variant = "index"
  /\ inflight > 0
  /\ LET r == fetchBusDataIndex(busHistory, entities, clock)
     IN /\ busHistory' = r.history
        /\ updateTripsIndex(r.trips)
  /\ console' = "log"
  /\ UNCHANGED <<variant, clock, lastTripsData, lastGlobalStart>>

FetchThrowIndex ==
  /\ variant = "index"
  /\ inflight > 0
  /\ LET r == fetchBusDataCatch(busHistory)
     IN /\ busHistory' = r.history
        /\ updateTripsIndex(r.trips)
  /\ console' = "error"
  /\ UNCHANGED <<variant, clock, lastTripsData, lastGlobalStart>>

\* map 'zoom' handler, lines 189-191: updateTrips() is called, a fetch starts
ZoomIndex ==
  /\ variant = "index"
  /\ inflight < MaxInflight
  /\ inflight' = inflight + 1
  /\ UNCHANGED <<variant, clock, busHistory, lastTripsData, started, rafPending,
                 frame, lastGlobalStart, console>>

----------------------------------------------------------------------------
(* Specifications                                                          *)

\* part_000 with its frame loop
FeedA ==
  {Report("B1", PB, k) : k \in 1..MaxTs} \cup {Unstamped("B1", PA), Anonymous(PB, MaxTs)}

Init == InitOf("part_000", StartClock)

Next ==
  \/ Tick
  \/ TimerFire
  \/ \E entities \in BatchesOf(FeedA) : FetchOk000(entities)
  \/ FetchThrow000
  \/ Frame000
  \/ Zoom000

Spec == Init /\ [][Next]_vars

\* the fetch cycles of part_000 and part_002 (frames between the cycles write
\* neither busHistory nor lastTripsData and are left out)
FeedH ==
  {Report("B1", PA, k) : k \in 1..MaxTs}
    \cup {Unstamped("B1", PB), Report("B2", PB, 0)}

InitHist == InitOf("part_000", StartClock) \/ InitOf("part_002", StartClock)

NextHist ==
  \/ Tick
  \/ TimerFire
  \/ \E entities \in BatchesOf(FeedH) : FetchOk000(entities)
  \/ FetchThrow000
  \/ \E entities \in BatchesOf(FeedH) : FetchOk002(entities)
  \/ FetchThrow002

SpecHist == InitHist /\ [][NextHist]_vars

\* part_002 with its frame loop
Init002 == InitOf("part_002", StartClock)

Next002 ==
  \/ Tick
  \/ TimerFire
  \/ \E entities \in BatchesOf(FeedA) : FetchOk002(entities)
  \/ FetchThrow002
  \/ Frame002

Spec002 == Init002 /\ [][Next002]_vars

\* the fetch cycles of index.js
InitIndex == InitOf("index", StartClock)

NextIndex ==
  \/ Tick
  \/ TimerFire
  \/ ZoomIndex
  \/ \E entities \in BatchesOf(FeedH) : FetchOkIndex(entities)
  \/ FetchThrowIndex

SpecIndex == InitIndex /\ [][NextIndex]_vars

----------------------------------------------------------------------------
(* State machine of part_004                                               *)

\* animate() lines 173-260, called directly (init, zoom handler): with
\* lastTripsData undefined, `for (const trip of lastTripsData)` (line 178)
\* throws a TypeError before overlay.setProps and before
\* requestAnimationFrame, and the caller is left by the exception.
AnimateCall004(trips, globalStart) ==
  IF globalStart = UndefinedStart
  THEN UNCHANGED <<frame, rafPending>>
  ELSE /\ frame' = animate004(trips, globalStart, clock)
       /\ rafPending' = Min(rafPending + 1, MaxRaf)

\* init() lines 262-266 after the first updateTrips(): `animate();` and then
\* setInterval, which is not reached when animate() throws
AfterFirstUpdate004(trips, globalStart) ==
  /\ AnimateCall004(trips, globalStart)
  /\ started' = (globalStart # UndefinedStart)

\* updateTrips() lines 162-166 resumed with {trips, globalStart}
updateTrips004(trips, globalStart) ==
  /\ lastTripsData' = trips
  /\ lastGlobalStart' = globalStart
  /\ inflight' = inflight - 1
  /\ IF started
     THEN UNCHANGED <<started, frame, rafPending>>
     ELSE AfterFirstUpdate004(trips, globalStart)

FetchOk004(entities) ==
  /\ variant = "part_004"
  /\ inflight > 0
  /\ LET r == fetchBusData004(busHistory, entities, clock)
     IN /\ busHistory' = r.history
        /\ updateTrips004(r.trips, r.globalStart)
  /\ console' = "log"
  /\ UNCHANGED <<variant, clock>>

\* the catch block returns [] (lines 111-114)
FetchThrow004 ==
  /\ variant = "part_004"
  /\ inflight > 0
  /\ busHistory' = fetchBusDataCatch(busHistory).history
  /\ updateTrips004(<<>>, UndefinedStart)
  /\ console' = "error"
  /\ UNCHANGED <<variant, clock>>

\* a requestAnimationFrame callback runs animate(): it requests the next
\* frame at its end (line 259), which a throw at line 178 never reaches
Frame004 ==
  /\ variant = "part_004"
  /\ rafPending > 0
  /\ IF lastGlobalStart = UndefinedStart
     THEN /\ rafPending' = rafPending - 1
          /\ UNCHANGED frame
     ELSE /\ frame' = animate004(lastTripsData, lastGlobalStart, clock)
          /\ UNCHANGED rafPending
  /\ UNCHANGED <<variant, clock, busHistory, lastTripsData, inflight, started,
                 lastGlobalStart, console>>

\* map 'zoom' handler, lines 144-148: animate() is called directly
Zoom004 ==
  /\ variant = "part_004"
  /\ rafPending < MaxRaf
  /\ AnimateCall004(lastTripsData, lastGlobalStart)
  /\ UNCHANGED <<variant, clock, busHistory, lastTripsData, inflight, started,
                 lastGlobalStart, console>>

Init004 == InitOf("part_004", StartClock)

Next004 ==
  \/ Tick
  \/ TimerFire
  \/ \E entities \in BatchesOf(FeedA) : FetchOk004(entities)
  \/ FetchThrow004
  \/ Frame004
  \/ Zoom004

Spec004 == Init004 /\ [][Next004]_vars

\* part_000 on the two-report feed of vehicle B1: the feed holds the report
\* (PA, ScenarioT) until B1 has been ingested once and (PB, ScenarioT +
\* ScenarioGapSec s) afterwards; the page is opened at ScenarioT at the earliest.
ScenarioT == EpochSec * MsPerSec
ScenarioEnd == ScenarioT + (ScenarioGapSec + ScenarioSlackSec) * MsPerSec

FirstReport == Report("B1", PA, 0)
SecondReport == Report("B1", PB, ScenarioGapSec)

ScenarioFeed == IF "B1" \in DOMAIN busHistory THEN <<SecondReport>> ELSE <<FirstReport>>

InitB1 == InitOf("part_000", ScenarioT)

NextB1 ==
  \/ Advance(ScenarioEnd)
  \/ TimerFire
  \/ FetchOk000(ScenarioFeed)
  \/ Frame000

SpecB1 == InitB1 /\ [][NextB1]_vars

----------------------------------------------------------------------------
(* Properties of the history store                                         *)

\* C1: in part_000 and in part_002, whenever control is back in the event
\* loop every vehicle's history holds at most HISTORY_LENGTH observations.
HistoryBounded ==
  \A v \in DOMAIN busHistory : Len(busHistory[v]) <= HISTORY_LENGTH

\* a full part_002 history whose synthetic first seed point has been evicted
SeedEvicted002 ==
  /\ variant = "part_002"
  /\ \E v \in DOMAIN busHistory :
       /\ Len(busHistory[v]) = HISTORY_LENGTH
       /\ busHistory[v][1].time >= StartClock

\* C2: in part_000 and in part_002 the times of every vehicle's history are
\* strictly increasing: entry[i].time > entry[i-1].time.
HistoryIncreasing ==
  \A v \in DOMAIN busHistory :
    \A i \in 2..Len(busHistory[v]) : busHistory[v][i].time > busHistory[v][i - 1].time

\* a part_000 history grown to HISTORY_LENGTH entries by successive polls
FullHistory000 ==
  /\ variant = "part_000"
  /\ \E v \in DOMAIN busHistory : Len(busHistory[v]) = HISTORY_LENGTH

\* the reports a poll may deliver for the vehicles of the feed: any position,
\* no timestamp or any timestamp of the explored seconds
Probes ==
  {Entity(id, TRUE, p, ts) :
     id \in {"B1", "B2"}, p \in Points, ts \in {0} \cup (EpochSec..(EpochSec + MaxTs))}

\* the report of entity e is for a vehicle already in the store and is not
\* newer than its last stored observation
IsStale(store, e, now) ==
  LET bus == ToBus(e, now)
  IN /\ bus.VehicleNumber \in DOMAIN store
     /\ bus.Timestamp <= Last(store[bus.VehicleNumber]).time

\* C3: in part_000, ingesting a report for an already-seen vehicle whose
\* timestamp is earlier than or equal to the time of the vehicle's last
\* stored observation leaves the whole history store unchanged (and the pass
\* is defined, i.e. raises nothing).
StaleReportIgnored000 ==
  variant = "part_000" =>
    \A e \in Probes :
      IsStale(busHistory, e, clock) =>
        /\ UpdateHistory000(busHistory, ToBus(e, clock), clock) = busHistory
        /\ fetchBusData000(busHistory, <<e>>, clock).history = busHistory

\* a stale report that differs from the last observation in position and in
\* time, so that only the guard keeps it out
StaleProbe000 ==
  /\ variant = "part_000"
  /\ \E e \in Probes :
       /\ IsStale(busHistory, e, clock)
       /\ LET last == Last(busHistory[e.id])
          IN /\ ToBus(e, clock).Timestamp < last.time
             /\ (last.lon # e.lon \/ last.lat # e.lat)

\* C4: in index.js, ingesting a report for an already-seen vehicle whose
\* timestamp is less than or equal to the time of the vehicle's last stored
\* observation does not mutate that vehicle's history, whatever its position.
StaleReportIgnoredIndex ==
  variant = "index" =>
    \A e \in Probes :
      IsStale(busHistory, e, clock) =>
        fetchBusDataIndex(busHistory, <<e>>, clock).history[e.id] = busHistory[e.id]

\* C5: in part_000, running the ingestion pass on a batch and then at once
\* again on the same batch leaves the store after the second pass equal to
\* the store after the first, for every store and every batch (unseen
\* vehicles, reports without timestamp and reports stamped later than the
\* wall clock included).
IngestIdempotent000 ==
  variant = "part_000" =>
    \A entities \in BatchesOf(FeedH) :
      LET once == fetchBusData000(busHistory, entities, clock).history
      IN fetchBusData000(once, entities, clock).history = once

----------------------------------------------------------------------------
(* Properties of the frames of part_000                                    *)

\* C6: in every frame computed by animate of part_000 each vehicle id has at
\* most one segment in animatingSegments.
OneAnimatingPerVehicle ==
  \A i, j \in 1..Len(frame.animatingSegments) :
    frame.animatingSegments[i].vehicle = frame.animatingSegments[j].vehicle => i = j

Between(a, x, b) == (a <= x /\ x <= b) \/ (b <= x /\ x <= a)

\* the head h = [lonNum, latNum, den] lies on the box spanned by seg's end points
HeadOnSegment(h, seg) ==
  /\ h.den >= 1
  /\ Between(seg.path[1].lon * h.den, h.lonNum, seg.path[2].lon * h.den)
  /\ Between(seg.path[1].lat * h.den, h.latNum, seg.path[2].lat * h.den)

\* h is exactly the final point of seg
HeadAtEnd(h, seg) ==
  /\ h.den >= 1
  /\ h.lonNum = seg.path[2].lon * h.den
  /\ h.latNum = seg.path[2].lat * h.den

\* the wall-clock seconds the head formula is probed with
ProbeSeconds == (EpochSec - MaxDrift)..(EpochSec + MaxTs + MaxDrift)

\* C7: in animate of part_000 the head fraction t is in [0,1] with a non-zero
\* denominator for every segment and every wall clock, so the head lies between
\* the segment's end points; in a frame, an animating segment has a positive
\* duration, its head is exactly the final point once the wall clock is at or
\* beyond its end, a vehicle without animating segment is shown exactly at
\* the final point of a finished segment, and each currentTime is in [0, duration].
HeadClamped ==
  /\ \A k \in 1..Len(lastTripsData) : \A now \in ProbeSeconds :
       LET seg == lastTripsData[k]
           t == HeadFraction(seg, now)
       IN /\ t.den >= 1
          /\ 0 <= t.num /\ t.num <= t.den
          /\ HeadOnSegment(HeadPos(seg, now), seg)
          /\ 0 <= TripCurrentTime(seg, now)
          /\ TripCurrentTime(seg, now) <= seg.timestamps[2]
  /\ \A i \in 1..Len(frame.animatingSegments) :
       LET seg == frame.animatingSegments[i]
       IN /\ seg.timestamps[2] >= 1
          /\ frame.currentTime[i] \in 0..seg.timestamps[2]
          /\ HeadOnSegment(HeadPos(seg, frame.now), seg)
          /\ frame.now >= SegEnd(seg) => HeadAtEnd(HeadPos(seg, frame.now), seg)
  /\ \A v \in DOMAIN frame.busHeads :
       \/ \E i \in 1..Len(frame.animatingSegments) :
            /\ frame.animatingSegments[i].vehicle = v
            /\ frame.busHeads[v] = HeadPos(frame.animatingSegments[i], frame.now)
       \/ \E i \in 1..Len(frame.finishedSegments) :
            /\ frame.finishedSegments[i].vehicle = v
            /\ frame.nowSec >= SegEnd(frame.finishedSegments[i])
            /\ HeadAtEnd(frame.busHeads[v], frame.finishedSegments[i])

\* a frame whose later Date.now() read is past the end of an animating
\* segment: the fraction is cut to 1
ClampedFrame ==
  \E i \in 1..Len(frame.animatingSegments) :
    /\ frame.now > SegEnd(frame.animatingSegments[i])
    /\ frame.animatingSegments[i].vehicle \in DOMAIN frame.busHeads

\* both reports of the B1 scenario have been ingested and the snapshot holds
\* the segment from the first to the second
ScenarioIngested ==
  /\ "B1" \in DOMAIN busHistory
  /\ Len(busHistory["B1"]) = 2
  /\ Last(busHistory["B1"]) = Obs(PB.lon, PB.lat, ScenarioT + ScenarioGapSec * MsPerSec)
  /\ lastTripsData # <<>>

\* the frame animate computes at the present wall clock
FrameNow == animate000(lastTripsData, NowSec, NowSec)

\* C8: B1 reported at PA = (21.00,52.20) with timestamp t = ScenarioT and by
\* the next poll at PB = (21.01,52.21) with timestamp t + 10000 ms: at wall
\* clock t + 5000 ms the head of B1 is the midpoint of PA and PB; at any wall
\* clock >= t + 10000 ms the head is exactly PB and the segment is finished.
ScenarioHead ==
  ScenarioIngested =>
    /\ 2 * clock = 2 * ScenarioT + ScenarioGapSec * MsPerSec =>
         /\ "B1" \in DOMAIN FrameNow.busHeads
         /\ LET h == FrameNow.busHeads["B1"]
            IN /\ 2 * h.lonNum = (PA.lon + PB.lon) * h.den
               /\ 2 * h.latNum = (PA.lat + PB.lat) * h.den
    /\ clock >= ScenarioT + ScenarioGapSec * MsPerSec =>
         /\ "B1" \in DOMAIN FrameNow.busHeads
         /\ FrameNow.busHeads["B1"] = [lonNum |-> PB.lon, latNum |-> PB.lat, den |-> 1]
         /\ FrameNow.animatingSegments = <<>>
         /\ Len(FrameNow.finishedSegments) = 1

----------------------------------------------------------------------------
(* Properties of failed and empty fetch cycles                             *)

\* C9: in part_000 a fetch cycle that fails (the fetch or the decode throws)
\* leaves the render snapshot lastTripsData unchanged, so the frames after it
\* use the same segments as before.
SnapshotKeptOnFailure ==
  [][FetchThrow000 => lastTripsData' = lastTripsData]_vars

\* C10: a fetch cycle whose fetch, schema load or decode throws, and a cycle
\* whose decoded feed has no entities, leave busHistory exactly as it was; the
\* exception is caught, so the suspended updateTrips() resumes and returns.
HistoryKeptOnFailure ==
  [][/\ (FetchThrow000 \/ FetchThrow002 \/ FetchOk000(<<>>) \/ FetchOk002(<<>>))
          => busHistory' = busHistory
     /\ (FetchThrow000 \/ FetchThrow002)
          => (console' = "error" /\ inflight' = inflight - 1 /\ started')]_vars

\* a failed cycle has run on a non-empty history store
FailedOnHistory ==
  /\ console = "error"
  /\ busHistory # EmptyStore
  /\ \E v \in DOMAIN busHistory : Len(busHistory[v]) >= 2

----------------------------------------------------------------------------
(* Properties of the segment set and of the classes of part_000            *)

SegmentsOf(segs, v) == SelectSeq(segs, LAMBDA seg : seg.vehicle = v)

\* C11: in a frame of part_000, a vehicle without animating segment and with
\* one or more finished segments has a head marker, and the marker is at the
\* end point of its most recent finished segment.
HeadAtLatestFinished ==
  \A i \in 1..Len(frame.finishedSegments) :
    LET v == frame.finishedSegments[i].vehicle
    IN SegmentsOf(frame.animatingSegments, v) = <<>> =>
         /\ v \in DOMAIN frame.busHeads
         /\ frame.busHeads[v] = EndPos(Last(SegmentsOf(frame.finishedSegments, v)))

\* C12: after a successful ingestion pass of part_000 the segments handed to
\* the renderer hold, for every vehicle of the store with history length
\* L >= 2, exactly the L - 1 segments of its consecutive pairs, whatever the
\* last batch held.
SegmentsFromStore ==
  console = "log" =>
    \A v \in DOMAIN busHistory :
      Len(busHistory[v]) >= 2 =>
        SegmentsOf(lastTripsData, v) =
          [i \in 1..(Len(busHistory[v]) - 1) |->
             Segment000(busHistory[v], i + 1, [VehicleNumber |-> v])]

InSeq(x, s) == \E i \in 1..Len(s) : s[i] = x

\* the frames animate may compute on the present snapshot: any second of the
\* probed range for the first clock read, any drift for the later reads
ProbeFrames ==
  {animate000(lastTripsData, nowSec, now) :
     nowSec \in ProbeSeconds, now \in ProbeSeconds}

\* C13: for the nowSec of a frame of part_000 every segment of the snapshot
\* is in exactly one class: animating iff start <= nowSec < end, finished iff
\* nowSec >= end, not yet active iff nowSec < start; a segment not yet active
\* is in neither layer, and a vehicle whose segments are all not yet active
\* has no head marker.
ThreeClasses ==
  \A f \in ProbeFrames : \A k \in 1..Len(lastTripsData) :
    LET seg == lastTripsData[k]
        start == seg.segmentStartTime
        end == SegEnd(seg)
        inAnimating == InSeq(seg, f.animatingSegments)
        inFinished == InSeq(seg, f.finishedSegments)
    IN /\ inAnimating <=> (start <= f.nowSec /\ f.nowSec < end)
       /\ inFinished <=> f.nowSec >= end
       /\ ~(inAnimating /\ inFinished)
       /\ f.nowSec < start => (~inAnimating /\ ~inFinished)
       /\ (\A j \in 1..Len(lastTripsData) :
             lastTripsData[j].vehicle = seg.vehicle
               => f.nowSec < lastTripsData[j].segmentStartTime)
            => seg.vehicle \notin DOMAIN f.busHeads

\* the frame on screen was computed while a segment of the present snapshot
\* had not started
FrameBeforeStart ==
  /\ frame.nowSec = NowSec
  /\ frame = animate000(lastTripsData, frame.nowSec, frame.now)
  /\ \E k \in 1..Len(lastTripsData) :
       /\ frame.nowSec < lastTripsData[k].segmentStartTime
       /\ lastTripsData[k].timestamps[2] >= 1

Named(entities) == SelectSeq(entities, LAMBDA e : e.id # "")

\* C14: a report with an empty vehicle id is skipped: busHistory gets no key
\* for it, no segment and no head marker carry it, and a pass over a batch
\* gives the history and the segments of the pass over the batch without its
\* reports of empty id.
EmptyIdSkipped ==
  /\ "" \notin DOMAIN busHistory
  /\ \A k \in 1..Len(lastTripsData) : lastTripsData[k].vehicle # ""
  /\ "" \notin DOMAIN frame.busHeads
  /\ \A entities \in BatchesOf(FeedA) :
       fetchBusData000(busHistory, entities, clock)
         = fetchBusData000(busHistory, Named(entities), clock)

\* a pass has run, and a batch mixing a report of empty id with a report that
\* changes the store can come next
EmptyIdInBatch ==
  /\ console = "log"
  /\ busHistory # EmptyStore
  /\ \E entities \in BatchesOf(FeedA) :
       /\ Named(entities) # entities
       /\ fetchBusData000(busHistory, entities, clock).history # busHistory

----------------------------------------------------------------------------
(* Properties of the timers, the fetches and the frame loop                *)

\* C15: in part_000 no second fetch is started while an updateTrips() is
\* still awaiting its fetch: at most one fetch is in flight at any time.
OneFetchInFlight == inflight <= 1

\* C16: there is exactly one rendering loop: at most one
\* requestAnimationFrame(animate) callback is pending in every state.
OneFrameLoop == rafPending <= 1

\* C17: in index.js a map zoom event starts no fetch and runs no ingestion
\* pass: it leaves the number of fetches in flight and the history store as
\* they were.
ZoomStartsNoFetch ==
  [][ZoomIndex => (inflight' = inflight /\ busHistory' = busHistory)]_vars

\* C18: in part_004 a failed fetch is never fatal: after any sequence of
\* fetch successes and failures every animate frame completes and requests
\* the next frame, so once the frame loop has started a frame callback is
\* always pending.
FrameLoopAlive004 ==
  (variant = "part_004" /\ started) => rafPending >= 1

----------------------------------------------------------------------------
(* Properties of the frames of part_002                                    *)

----------------------------------------------------------------------------
(* Segments of part_000 that start and end in the same second              *)

\* C20: in part_000 a segment whose start and end fall in the same second is
\* animating for no wall-clock value: it is finished for every nowSec >=
\* startTime and in no class before; and no interpolation fraction has a
\* denominator below 1.
ZeroDurationNeverAnimates ==
  \A k \in 1..Len(lastTripsData) :
    LET seg == lastTripsData[k]
    IN /\ \A now \in ProbeSeconds : HeadFraction(seg, now).den >= 1
       /\ seg.timestamps[2] = 0 =>
            \A f \in ProbeFrames :
              /\ ~InSeq(seg, f.animatingSegments)
              /\ InSeq(seg, f.finishedSegments) <=> f.nowSec >= seg.segmentStartTime

\* the frame on screen holds a finished segment of duration 0
ZeroDurationOnScreen ==
  \E i \in 1..Len(frame.finishedSegments) :
    /\ frame.finishedSegments[i].timestamps[2] = 0
    /\ frame.nowSec = frame.finishedSegments[i].segmentStartTime

----------------------------------------------------------------------------
(* Order of the classes along a history, part_000                          *)

\* the segments fetchBusData builds for vehicle v from the present store
StoreSegments(v) == BusSegments000(busHistory, [VehicleNumber |-> v])

\* the class animate gives a segment at nowSec (lines 205-218)
ClassOf(seg, nowSec) ==
  IF IsFinished(seg, nowSec) THEN "finished"
  ELSE IF IsAnimating(seg, nowSec) THEN "animating"
  ELSE "not yet active"

\* C21: in part_000, for every vehicle and every nowSec the classes of the
\* segments of its history are ordered along the history: when the segment
\* of the pair (hist[k-1], hist[k]) is animating, every segment of smaller
\* index is finished and every segment of larger index is not yet active;
\* and no finished segment follows an animating or not-yet-active one.
ClassesOrdered ==
  \A v \in DOMAIN busHistory : \A nowSec \in ProbeSeconds :
    LET segs == StoreSegments(v)
    IN \A k \in 1..Len(segs) :
         /\ ClassOf(segs[k], nowSec) = "animating" =>
              /\ \A j \in 1..(k - 1) : ClassOf(segs[j], nowSec) = "finished"
              /\ \A j \in (k + 1)..Len(segs) : ClassOf(segs[j], nowSec) = "not yet active"
         /\ ClassOf(segs[k], nowSec) = "finished" =>
              \A j \in 1..(k - 1) : ClassOf(segs[j], nowSec) = "finished"

\* the frame on screen, computed on the segments of the present store, shows
\* a vehicle with a finished segment followed by an animating one
FinishedThenAnimating ==
  \E v \in DOMAIN busHistory :
    /\ Len(StoreSegments(v)) >= 2
    /\ frame.nowSec = NowSec
    /\ ClassOf(StoreSegments(v)[1], frame.nowSec) = "finished"
    /\ ClassOf(StoreSegments(v)[2], frame.nowSec) = "animating"
    /\ InSeq(StoreSegments(v)[1], frame.finishedSegments)
    /\ InSeq(StoreSegments(v)[2], frame.animatingSegments)

----------------------------------------------------------------------------
(* The seed of an unseen vehicle                                            *)

\* the reports of Probes for vehicles the store has no key for
UnseenProbes(store) == {e \in Probes : e.id \notin DOMAIN store}

\* C22: in part_002 the first report of an unseen vehicle seeds its history
\* with exactly two observations, both at the reported position and in
\* increasing time order: one stamped with the report's own time and one
\* stamped with the ingestion wall-clock time minus 5 seconds.
SeedTwoPoint002 ==
  variant = "part_002" =>
    \A e \in UnseenProbes(busHistory) :
      LET bus == ToBus(e, clock)
          hist == UpdateHistory002(busHistory, bus, clock)[e.id]
      IN /\ Len(hist) = 2
         /\ \A i \in 1..2 : hist[i].lon = bus.Lon /\ hist[i].lat = bus.Lat
         /\ hist[1].time < hist[2].time
         /\ {hist[1].time, hist[2].time} = {bus.Timestamp, clock - SeedBackMs}

\* C23: in part_000 the first report of an unseen vehicle creates a history
\* of exactly one observation, at the report's position and stamped with the
\* ingestion wall-clock time of the pass (not with the report's feed
\* timestamp); as long as the history holds that one observation, no segment
\* of the snapshot and no head marker carries the vehicle.
SeedOnePoint000 ==
  variant = "part_000" =>
    /\ \A e \in UnseenProbes(busHistory) :
         LET r == fetchBusData000(busHistory, <<e>>, clock)
         IN /\ UpdateHistory000(busHistory, ToBus(e, clock), clock)[e.id]
                 = <<Obs(e.lon, e.lat, clock)>>
            /\ r.history[e.id] = <<Obs(e.lon, e.lat, clock)>>
            /\ SegmentsOf(r.trips, e.id) = <<>>
    /\ \A v \in DOMAIN busHistory :
         Len(busHistory[v]) = 1 =>
           /\ SegmentsOf(lastTripsData, v) = <<>>
           /\ v \notin DOMAIN frame.busHeads

\* B1 was seeded from a stamped report (the stamped reports of the feed are
\* at PB); its one observation carries the wall clock of the pass, and a
\* frame has been computed since
SeededFromStamped000 ==
  /\ variant = "part_000"
  /\ "B1" \in DOMAIN busHistory
  /\ Len(busHistory["B1"]) = 1
  /\ busHistory["B1"][1].lon = PB.lon
  /\ busHistory["B1"][1].time = StartClock
  /\ started
  /\ clock > StartClock
  /\ frame.nowSec = NowSec

----------------------------------------------------------------------------
(* Eviction, part_000                                                       *)

\* the last n entries of s (all of s when it has fewer)
LastN(s, n) == SubSeq(s, Max(1, Len(s) - n + 1), Len(s))

\* the report of entity e is accepted into the history of a known vehicle:
\* neither stale nor equal to the last entry
IsAccepted(store, e, now) ==
  /\ e.id \in DOMAIN store
  /\ ~IsStale(store, e, now)
  /\ Differs(Last(store[e.id]), ToBus(e, now))

\* a history that holds HISTORY_LENGTH entries and an accepted report give
\* the history without its first entry, followed by the new observation
FullHistoryShifts ==
  variant = "part_000" =>
    \A e \in Probes :
      (IsAccepted(busHistory, e, clock) /\ Len(busHistory[e.id]) = HISTORY_LENGTH) =>
        LET bus == ToBus(e, clock)
            new == fetchBusData000(busHistory, <<e>>, clock).history
        IN /\ new[e.id] = Tail(busHistory[e.id]) \o <<Obs(bus.Lon, bus.Lat, bus.Timestamp)>>
           /\ \A v \in DOMAIN busHistory \ {e.id} : new[v] = busHistory[v]

\* a pass leaves every history equal to the last HISTORY_LENGTH entries of
\* the old history followed by the observations the pass accepted
PassKeepsNewest ==
  variant = "part_000" =>
    \A v \in DOMAIN busHistory' :
      \E k \in 0..Min(MaxBatch, Len(busHistory'[v])) :
        busHistory'[v] =
          LastN(HistOf(busHistory, v) \o LastN(busHistory'[v], k), HISTORY_LENGTH)

\* C24: when an observation is appended to a history that already holds
\* HISTORY_LENGTH entries, exactly the oldest entry is evicted: the new
\* history is the old one without its first element followed by the new
\* observation; so after any sequence of accepted reports the history is the
\* most recent HISTORY_LENGTH accepted observations in acceptance order.
EvictsOldest == []FullHistoryShifts /\ [][PassKeepsNewest]_vars

\* a full history and a report that will be accepted into it
FullAndAccepting ==
  /\ variant = "part_000"
  /\ \E e \in Probes :
       /\ IsAccepted(busHistory, e, clock)
       /\ Len(busHistory[e.id]) = HISTORY_LENGTH

----------------------------------------------------------------------------
(* Writers of busHistory, part_000                                          *)

\* every observation of the old history is in the new one, d places nearer
\* the front, or is one of the d evicted from the front
ShiftedBy(old, new, d) ==
  /\ d <= Len(old)
  /\ Len(new) >= Len(old) - d
  /\ \A i \in (d + 1)..Len(old) : new[i - d] = old[i]
  /\ d > 0 => Len(new) = HISTORY_LENGTH

\* C25: in part_000 the ingestion step of fetchBusData is the only writer of
\* busHistory: an animate frame, a zoom event and what updateTrips does after
\* fetchBusData has returned leave its keys and every stored observation as
\* they were (a failed fetch included): every change of busHistory is made
\* by a resolving fetch and is exactly what its ingestion pass computes; and
\* an observation once stored is never modified, only evicted from the front.
OnlyIngestionWrites ==
  [][/\ (Frame000 \/ Zoom000 \/ FetchThrow000 \/ Tick \/ TimerFire)
          => busHistory' = busHistory
     /\ busHistory' # busHistory =>
          /\ inflight' = inflight - 1
          /\ console' = "log"
          /\ \E entities \in BatchesOf(FeedA) :
               busHistory' = fetchBusData000(busHistory, entities, clock).history
     /\ \A v \in DOMAIN busHistory :
          /\ v \in DOMAIN busHistory'
          /\ \E d \in 0..MaxBatch : ShiftedBy(busHistory[v], busHistory'[v], d)]_vars

\* a zoom event has run animate() on a snapshot that holds every segment of
\* a full history
ZoomedOnFullHistory ==
  /\ variant = "part_000"
  /\ rafPending = MaxRaf
  /\ frame.nowSec = NowSec
  /\ \E v \in DOMAIN busHistory :
       /\ Len(busHistory[v]) = HISTORY_LENGTH
       /\ Len(SegmentsOf(frame.finishedSegments \o frame.animatingSegments, v))
            >= HISTORY_LENGTH - 1

----------------------------------------------------------------------------
(* Atomicity of an ingestion pass towards the renderer, part_000           *)

\* segs is a whole number of copies of the run `run`
CopiesOf(segs, run) ==
  IF run = <<>> THEN segs = <<>>
  ELSE /\ Len(segs) % Len(run) = 0
       /\ \A i \in 1..Len(segs) : segs[i] = run[((i - 1) % Len(run)) + 1]

\* the vehicle ids carried by the segments of a snapshot
VehiclesOf(trips) == {trips[i].vehicle : i \in 1..Len(trips)}

\* C26: in part_000 one ingestion pass is atomic towards rendering: whenever
\* a frame or a zoom handler can run, the render snapshot holds for each of
\* its vehicles the segments of the vehicle's whole present history (the
\* store after every mutation of every completed cycle), never those of a
\* history between two mutations of a batch; and every frame animate can
\* compute then shows only segments of those whole histories.
PassAtomicForFrames ==
  /\ \A v \in VehiclesOf(lastTripsData) :
       /\ v \in DOMAIN busHistory
       /\ SegmentsOf(lastTripsData, v) # <<>>
       /\ CopiesOf(SegmentsOf(lastTripsData, v), StoreSegments(v))
  /\ \A f \in ProbeFrames :
       \A k \in 1..Len(f.finishedSegments \o f.animatingSegments) :
         LET seg == (f.finishedSegments \o f.animatingSegments)[k]
         IN InSeq(seg, StoreSegments(seg.vehicle))

\* while a second fetch is in flight, the frame on screen was computed from
\* a snapshot that holds the segments of a three-point history once per
\* report of the batch
FrameOnRepeatedBatch ==
  /\ variant = "part_000"
  /\ inflight >= 1
  /\ \E v \in DOMAIN busHistory :
       /\ Len(busHistory[v]) = HISTORY_LENGTH
       /\ Len(SegmentsOf(lastTripsData, v)) = 2 * (HISTORY_LENGTH - 1)
  /\ \E now \in Reads : frame = animate000(lastTripsData, NowSec, now)
  /\ frame.animatingSegments # <<>>

----------------------------------------------------------------------------
(* Continuity of the head over a fetch cycle, part_002                     *)

\* the head h = [lonNum, latNum, den] is exactly at the observation o
HeadAtObs(h, o) ==
  /\ h.den >= 1
  /\ h.lonNum = o.lon * h.den
  /\ h.latNum = o.lat * h.den

\* v has a head in `heads`, at its latest stored observation
HeadAtLatest(heads, store, v) ==
  /\ v \in DOMAIN heads
  /\ HeadAtObs(heads[v], Last(store[v]))

\* on real steps: a resolving fetch that leaves v's history as it was keeps
\* a head that was at v's latest observation in the frame before (frame) at
\* that position in the frame animate() computes right after (frame')
HeadKeptByCycle002 ==
  (variant = "part_002" /\ console' = "log" /\ inflight' = inflight - 1) =>
    \A v \in DOMAIN busHistory :
      (busHistory'[v] = busHistory[v] /\ HeadAtLatest(frame.busHeads, busHistory, v))
        => HeadAtLatest(frame'.busHeads, busHistory', v)

\* one timer period on: the frame FETCH_INTERVAL ms after the last
\* successful fetch against the frame right after the next one, for every
\* batch of the feed that reports v and appends nothing for it
HeadKeptOverPeriod002 ==
  variant = "part_002" =>
    \A v \in DOMAIN busHistory : \A entities \in BatchesOf(FeedA) :
      LET before == BusHeads002(lastTripsData, FETCH_INTERVAL)
          r == fetchBusData002(busHistory, entities, lastGlobalStart + FETCH_INTERVAL)
          after == animate002(r.trips, r.globalStart, r.globalStart).busHeads
      IN (/\ \E i \in 1..Len(entities) : entities[i].id = v
          /\ r.history[v] = busHistory[v]
          /\ HeadAtLatest(before, busHistory, v))
           => HeadAtLatest(after, r.history, v)

\* C27: in part_002 a successful fetch cycle that appends no observation for
\* a vehicle (its report is stale, or the feed has none for it) causes no
\* discontinuity of the vehicle's head: a head that was at the vehicle's
\* latest observation in the last frame before the cycle completed is at the
\* same position in the first frame after it.
HeadContinuous002 == []HeadKeptOverPeriod002 /\ [][HeadKeptByCycle002]_vars

----------------------------------------------------------------------------
(* Newer reports of a known vehicle, part_000                              *)

\* the report of entity e is for a known vehicle and strictly newer than its
\* last stored observation
IsNewer(store, e, now) ==
  /\ e.id \in DOMAIN store
  /\ ToBus(e, now).Timestamp > Last(store[e.id]).time

\* the report of entity e equals the last stored observation of its vehicle
IsRepeat(store, e, now) ==
  /\ e.id \in DOMAIN store
  /\ ~Differs(Last(store[e.id]), ToBus(e, now))

\* C28: in part_000, for an already-seen vehicle a report whose timestamp is
\* strictly greater than the time of the last stored observation is appended
\* as exactly one new last observation with the report's position and
\* timestamp, whether or not the position equals the last stored one; a
\* report equal to the last stored entry in position and timestamp is dropped.
NewerReportAppended ==
  variant = "part_000" =>
    \A e \in Probes :
      LET bus == ToBus(e, clock)
          old == busHistory[e.id]
          new == fetchBusData000(busHistory, <<e>>, clock).history
          obs == Obs(bus.Lon, bus.Lat, bus.Timestamp)
      IN /\ IsNewer(busHistory, e, clock) =>
              /\ new[e.id] = IF Len(old) = HISTORY_LENGTH
                             THEN Tail(old) \o <<obs>> ELSE old \o <<obs>>
              /\ DOMAIN new = DOMAIN busHistory
              /\ \A v \in DOMAIN busHistory \ {e.id} : new[v] = busHistory[v]
         /\ IsRepeat(busHistory, e, clock) => new = busHistory

\* a known vehicle with a newer report at the position of its last
\* observation, and with a report equal to its last observation
NewerAtSamePosition ==
  /\ variant = "part_000"
  /\ \E e \in Probes :
       /\ IsNewer(busHistory, e, clock)
       /\ e.lon = Last(busHistory[e.id]).lon
       /\ e.lat = Last(busHistory[e.id]).lat
  /\ \E e \in Probes : IsRepeat(busHistory, e, clock)

\* C29: in part_000, once a vehicle has been seeded from a report with feed
\* timestamp T0, any later report of that vehicle with a feed timestamp
\* T1 > T0 is appended to its history.
NewerThanSeedAppended ==
  variant = "part_000" =>
    \A e0 \in UnseenProbes(busHistory) : \A e1 \in Probes :
      (e0.timestamp # 0 /\ e1.id = e0.id /\ e1.timestamp > e0.timestamp) =>
        LET seeded == fetchBusData000(busHistory, <<e0>>, clock).history
            later == fetchBusData000(seeded, <<e1>>, clock + TickMs).history
        IN /\ Len(later[e0.id]) = 2
           /\ Last(later[e0.id]) = Obs(e1.lon, e1.lat, e1.timestamp * MsPerSec)

----------------------------------------------------------------------------
(* Contiguity of the segments of a history, part_000                       *)

\* C30: in part_000 the segments built from a vehicle's history are
\* contiguous and non-overlapping in time: with startTime =
\* floor(hist[i-1].time / 1000) and endTime = floor(hist[i].time / 1000),
\* every segment has endTime >= startTime, and the endTime of the segment of
\* (hist[i-1], hist[i]) is the startTime of the segment of (hist[i], hist[i+1]).
SegmentsContiguous ==
  variant = "part_000" =>
    /\ \A v \in DOMAIN busHistory :
         LET hist == busHistory[v]
             segs == StoreSegments(v)
         IN /\ Len(segs) = Max(0, Len(hist) - 1)
            /\ \A k \in 1..Len(segs) :
                 /\ segs[k].segmentStartTime = Floor(hist[k].time, MsPerSec)
                 /\ SegEnd(segs[k]) = Floor(hist[k + 1].time, MsPerSec)
                 /\ SegEnd(segs[k]) >= segs[k].segmentStartTime
                 /\ k < Len(segs) => SegEnd(segs[k]) = segs[k + 1].segmentStartTime
    /\ \A k \in 1..Len(lastTripsData) :
         /\ SegEnd(lastTripsData[k]) >= lastTripsData[k].segmentStartTime
         /\ InSeq(lastTripsData[k], StoreSegments(lastTripsData[k].vehicle))

\* the snapshot holds two consecutive segments that meet inside a second:
\* the middle observation is not on a whole second
SegmentsMeetInsideSecond ==
  /\ variant = "part_000"
  /\ \E v \in DOMAIN busHistory :
       /\ Len(busHistory[v]) = HISTORY_LENGTH
       /\ busHistory[v][2].time % MsPerSec # 0
       /\ Len(SegmentsOf(lastTripsData, v)) >= 2

----------------------------------------------------------------------------
(* The keys of busHistory, part_000 and index.js                           *)

\* the fetch cycles of part_000 and of index.js
InitStore == InitOf("part_000", StartClock) \/ InitOf("index", StartClock)

NextStore ==
  \/ Tick
  \/ TimerFire
  \/ ZoomIndex
  \/ \E entities \in BatchesOf(FeedH) : FetchOk000(entities)
  \/ FetchThrow000
  \/ \E entities \in BatchesOf(FeedH) : FetchOkIndex(entities)
  \/ FetchThrowIndex

SpecStore == InitStore /\ [][NextStore]_vars

\* every key of the store maps to a non-empty history
HistoriesNonEmpty == \A v \in DOMAIN busHistory : Len(busHistory[v]) >= 1

\* a step keeps every key; each history loses entries at its head only, and
\* only when it is at HISTORY_LENGTH afterwards, and gains them at its tail only
KeysKeptAppendOnly ==
  /\ DOMAIN busHistory \subseteq DOMAIN busHistory'
  /\ \A v \in DOMAIN busHistory :
       /\ \E d \in 0..MaxBatch : ShiftedBy(busHistory[v], busHistory'[v], d)
       /\ \E k \in 0..Min(MaxBatch, Len(busHistory'[v])) :
            busHistory'[v] =
              LastN(busHistory[v] \o LastN(busHistory'[v], k), HISTORY_LENGTH)
       /\ Len(busHistory'[v]) <= HISTORY_LENGTH

\* C31: in part_000 and in index.js, in every reachable state every key of
\* busHistory maps to a non-empty history, and a vehicle key once created is
\* never removed: ingestion only appends at the tail and evicts at the head
\* when the length exceeds HISTORY_LENGTH.
KeysNeverRemoved == []HistoriesNonEmpty /\ [][KeysKeptAppendOnly]_vars

\* index.js holds two vehicles, one of them with a full history whose times
\* are not increasing (a report older than the last entry was appended)
TwoKeysFullIndex ==
  /\ variant = "index"
  /\ Cardinality(DOMAIN busHistory) = 2
  /\ \E v \in DOMAIN busHistory :
       /\ Len(busHistory[v]) = HISTORY_LENGTH
       /\ \E i \in 2..HISTORY_LENGTH : busHistory[v][i].time < busHistory[v][i - 1].time

----------------------------------------------------------------------------
(* The head markers of a frame, part_000                                   *)

\* line 271: scatterData = Object.values(busHeads), one marker per key
ScatterData(busHeads) ==
  {[vehicle |-> v, pos |-> busHeads[v]] : v \in DOMAIN busHeads}

\* C32: each frame of part_000's animate emits at most one head marker per
\* vehicle id, also when the snapshot holds several or duplicated segments of
\* the vehicle, and each head position is either the point interpolated on an
\* animating segment of that vehicle or the end point of a finished segment
\* of that vehicle.
OneHeadPerVehicle ==
  LET data == ScatterData(frame.busHeads)
      shown == frame.finishedSegments \o frame.animatingSegments
  IN /\ \A a \in data : \A b \in data : a.vehicle = b.vehicle => a = b
     /\ Cardinality(data) <= Cardinality(VehiclesOf(shown))
     /\ \A m \in data :
          \/ \E i \in 1..Len(frame.animatingSegments) :
               /\ frame.animatingSegments[i].vehicle = m.vehicle
               /\ m.pos = HeadPos(frame.animatingSegments[i], frame.now)
          \/ \E i \in 1..Len(frame.finishedSegments) :
               /\ frame.finishedSegments[i].vehicle = m.vehicle
               /\ m.pos = EndPos(frame.finishedSegments[i])

\* a frame computed on a snapshot that holds a vehicle's segments twice: two
\* animating and two finished segments of one vehicle, and one marker
HeadOnDuplicatedSegments ==
  \E v \in DOMAIN frame.busHeads :
    /\ Len(SegmentsOf(frame.animatingSegments, v)) >= 2
    /\ Len(SegmentsOf(frame.finishedSegments, v)) >= 2
    /\ Cardinality(ScatterData(frame.busHeads)) = 1

----------------------------------------------------------------------------
(* The head of part_002 on the most recent segment                         *)

\* MIN_SEGMENT_DURATION in ms
MinSegmentMs == MIN_SEGMENT_DURATION * MsPerSec

\* the elapsed times (ms since the last successful fetch) the head is probed
\* with: around the first knot of the timestamps, around 19 s, one and many
\* timer periods
ProbeElapsedMs ==
  {0, TickMs, MinSegmentMs \div (INTERP_POINTS - 1), MinSegmentMs \div (INTERP_POINTS - 1) + 1,
   MinSegmentMs \div 2, MinSegmentMs - 1, MinSegmentMs, MinSegmentMs + 1,
   FETCH_INTERVAL, FETCH_INTERVAL * MsPerSec}

\* the index findIndex returns on trip (line 228), 1-based; 0 for -1
PieceIndex002(trip, elapsedMs) ==
  LET later == {j \in 1..INTERP_POINTS : NowBefore(elapsedMs, TimestampAt002(trip, j))}
  IN IF later = {} THEN 0 ELSE CHOOSE j \in later : \A k \in later : j <= k

\* the head h of vehicle v at elapsedMs is on the segment of the last pair
\* of v's history: at prev + (curr - prev) * elapsedMs / 19 s before 19 s,
\* with a piece fraction in [0,1) over a positive denominator, and exactly at
\* curr from 19 s on
HeadOnLastPair002(h, v, elapsedMs) ==
  LET hist == busHistory[v]
      prev == hist[Len(hist) - 1]
      curr == Last(hist)
      trip == Last(SegmentsOf(lastTripsData, v))
      idx == PieceIndex002(trip, elapsedMs)
  IN /\ trip.isLast
     /\ trip.prev = [lon |-> prev.lon, lat |-> prev.lat]
     /\ trip.curr = [lon |-> curr.lon, lat |-> curr.lat]
     /\ h.den >= 1
     /\ elapsedMs >= MinSegmentMs => HeadAtObs(h, curr)
     /\ elapsedMs < MinSegmentMs =>
          /\ idx >= 2
          /\ LET t0 == TimestampAt002(trip, idx - 1)
                 t1 == TimestampAt002(trip, idx)
                 fnum == elapsedMs * (INTERP_POINTS - 1) - t0 * MsPerSec
                 fden == (t1 - t0) * MsPerSec
             IN fden > 0 /\ 0 <= fnum /\ fnum < fden
          /\ h.den % MinSegmentMs = 0
          /\ h.lonNum - prev.lon * h.den
               = (curr.lon - prev.lon) * elapsedMs * (h.den \div MinSegmentMs)
          /\ h.latNum - prev.lat * h.den
               = (curr.lat - prev.lat) * elapsedMs * (h.den \div MinSegmentMs)

\* C33: in part_002's animate, for every frame and every vehicle with
\* segments, the head lies on the vehicle's most recent segment between its
\* end points: the piecewise interpolation fraction is in [0,1) with a
\* non-zero denominator while fewer than 19 s have elapsed since the last
\* successful fetch, and the head is exactly at the latest observation once
\* 19 s or more have elapsed, however large the elapsed time.
HeadOnLatestSegment002 ==
  variant = "part_002" =>
    /\ \A elapsedMs \in ProbeElapsedMs :
         LET heads == BusHeads002(lastTripsData, elapsedMs)
         IN \A v \in VehiclesOf(lastTripsData) :
              /\ v \in DOMAIN heads
              /\ v \in DOMAIN busHistory
              /\ HeadOnLastPair002(heads[v], v, elapsedMs)
    /\ \A v \in DOMAIN frame.busHeads :
         /\ frame.busHeads = BusHeads002(lastTripsData, frame.elapsedMs)
         /\ HeadOnLastPair002(frame.busHeads[v], v, frame.elapsedMs)

\* the frame on screen shows a head under way between two different
\* positions, on a vehicle that has an older segment as well
HeadUnderWay002 ==
  /\ variant = "part_002"
  /\ \E v \in DOMAIN frame.busHeads :
       /\ Len(busHistory[v]) >= 3
       /\ frame.elapsedMs > 0
       /\ Last(busHistory[v]).lon # busHistory[v][Len(busHistory[v]) - 1].lon
       /\ ~HeadAtObs(frame.busHeads[v], Last(busHistory[v]))
       /\ ~HeadAtObs(frame.busHeads[v], busHistory[v][Len(busHistory[v]) - 1])

----------------------------------------------------------------------------
(* The segments of a vehicle from one snapshot to the next, part_000       *)

\* the fetch cycles of part_000 on a feed of two vehicles that both move
FeedTwo ==
  {Report("B1", PA, 1), Report("B1", PB, MaxTs), Report("B2", PB, 1), Report("B2", PA, MaxTs)}

\* the decoded messages that hold at most one entity per vehicle
BatchesTwo ==
  {b \in BatchesOf(FeedTwo) : \A i \in 1..Len(b) : \A j \in 1..Len(b) : b[i].id = b[j].id => i = j}

InitTwo == InitOf("part_000", StartClock)

NextTwo ==
  \/ Tick
  \/ TimerFire
  \/ \E entities \in BatchesTwo : FetchOk000(entities)
  \/ FetchThrow000

SpecTwo == InitTwo /\ [][NextTwo]_vars

\* the step is a successful pass that changes the history of a known vehicle
PassAppends ==
  /\ variant = "part_000"
  /\ console' = "log"
  /\ inflight' = inflight - 1
  /\ \E w \in DOMAIN busHistory : busHistory'[w] # busHistory[w]

\* v's segments of the next snapshot are those of the present one without
\* the d oldest (d the number of observations evicted from v's history),
\* followed by segments the present snapshot does not hold
SegmentsCarriedOver(v) ==
  LET old == SegmentsOf(lastTripsData, v)
      new == SegmentsOf(lastTripsData', v)
  IN \E d \in 0..MaxBatch :
       /\ ShiftedBy(busHistory[v], busHistory'[v], d)
       /\ LET kept == SubSeq(old, d + 1, Len(old))
          IN /\ Len(new) >= Len(kept)
             /\ SubSeq(new, 1, Len(kept)) = kept
             /\ \A i \in (Len(kept) + 1)..Len(new) : ~InSeq(new[i], old)

\* C34: in part_000 a successful ingestion pass that appends observations
\* leaves every previously existing, non-evicted segment of every vehicle
\* unchanged in the next render snapshot (same end points, same absolute
\* start time and duration); only new segments are added at the end of a
\* vehicle's sequence and only the oldest segment is removed on eviction.
SegmentsKeptByPass ==
  [][PassAppends => \A v \in VehiclesOf(lastTripsData) : SegmentsCarriedOver(v)]_vars

====
